---- MODULE Spec2Model ----
(***************************************************************************)
(* Model of the WIZNET class of adafruit_wiznet5k.py: chip detection       *)
(* (__init__, detect_w5500, sw_reset), the socket slot life cycle          *)
(* (get_socket, socket_open, socket_connect, socket_close) and the         *)
(* buffer transfers (socket_write, socket_read), each translated from      *)
(* its code, against a W5500 that executes the commands the driver sends   *)
(* and changes its own registers (status, interrupt, received size, PHY)   *)
(* between the driver's bus transactions.                                  *)
(***************************************************************************)
EXTENDS Integers, Sequences, FiniteSets, TLC

VARIABLES
    runtime,    \* interpreter running the module: "circuitpython" or "cpython"
    src_port,   \* self._src_port
    link,       \* chip: PHYCFGR bit 0, as read by link_status
    snsr,       \* chip: Sn_SR of every slot, as read by _read_snsr
    snir,       \* chip: Sn_IR of every slot, as read by _read_snir
    rx_rsr,     \* chip: Sn_RX_RSR of every slot (received size)
    rx_rd,      \* chip: Sn_RX_RD of every slot (read pointer)
    tx_wr,      \* chip: Sn_TX_WR of every slot (write pointer)
    pc,         \* where the (single-threaded) driver is: "idle", at a sleep or inside a
                \* polling loop
    call,       \* the driver call in progress, or the last one made
    result,     \* what that call returned or raised
    wlog,       \* the bus write transactions of that call, in order, and any read
                \* transaction it gave up after the address bytes
    loc,        \* local variables of that call
    live,       \* slot handles returned by get_socket and not closed since
    alloc_port, \* per slot, the source port the get_socket that last returned it assigned (0: none)
    before_read, \* the socket_write, if any, made right before the socket_read in `call`
    iosock,     \* the handle the application makes its transfers on
    chip_type,  \* self._chip_type: "None" or "w5500"
    mr,         \* chip: mode register, as read by _read_mr
    chipid      \* chip: what is wired to the bus (version byte, mode register behaviour)

vars == <<runtime, src_port, link, snsr, snir, rx_rsr, rx_rd, tx_wr,
          pc, call, result, wlog, loc, live, alloc_port, before_read, iosock,
          chip_type, mr, chipid>>

---------------------------------------------------------------------------
(* Constants of the module (decimal values of the source's hexadecimal).   *)

REG_MR == 0
REG_SHAR == 9
REG_VERSIONR_W5500 == 57

REG_SNMR == 0
REG_SNCR == 1
REG_SNIR == 2
REG_SNSR == 3
REG_SNPORT == 4
REG_SNDIPR == 12
REG_SNDPORT == 16
REG_SNTX_FSR == 32
REG_SNTX_WR == 36
REG_SNRX_RSR == 38
REG_SNRX_RD == 40

SNSR_SOCK_CLOSED == 0
SNSR_SOCK_INIT == 19
SNSR_SOCK_LISTEN == 20
SNSR_SOCK_SYNSENT == 21
SNSR_SOCK_ESTABLISHED == 23
SNSR_SOCK_FIN_WAIT == 24
SNSR_SOCK_CLOSE_WAIT == 28
SNSR_SOCK_UDP == 34
SNSR_SOCK_MACRAW == 66

CMD_SOCK_OPEN == 1
CMD_SOCK_CONNECT == 4
CMD_SOCK_CLOSE == 16
CMD_SOCK_SEND == 32
CMD_SOCK_RECV == 64

SNIR_SEND_OK == 16
SNIR_RECV == 4

CH_SIZE == 256
SOCK_SIZE == 2048
W5200_W5500_MAX_SOCK_NUM == 8

SNMR_TCP == 33
SNMR_UDP == 2
SNMR_MACRAW == 4

\* the version byte detect_w5500 accepts
VERSIONR_W5500_VALUE == 4
\* self._ch_base_msb, set by detect_w5500
ch_base_msb == 16
\* self._sock, set by __init__ and never assigned again
self_sock == 0

---------------------------------------------------------------------------
(* Bounds of the model.                                                    *)

\* callers pass slot indices 0..MaxSock; the chip changes the status of those slots
MaxSock == 1
\* a get_socket is taken only while src_port is at most MaxAllocs past its initial value
MaxAllocs == 2
\* initial src_port of a driver that has already made this many allocations
PortNearWrap == 65534
\* destination port passed to socket_open and socket_connect
DestPort == 80

\* the buffer transfers are made on slots 0..MaxIoSock
MaxIoSock == 0
\* most bytes the chip holds received and unread on a slot
MaxRx == 2
\* longest length asked of socket_read
MaxReadLen == 2
\* a transfer starts only while the slot's pointer is below MaxPtrStart or at
\* least PtrNearWrap
MaxPtrStart == 2
\* initial TX and RX pointers of a chip that has moved this many bytes
PtrNearWrap == 65534
\* number of bytes of the longest buffer past SOCK_SIZE
OverSize == 1
\* calls are made with indices up to max_sockets + OverIdx
OverIdx == 1

DestAddr == <<192, 0, 2, 1>>
DEFAULT_MAC == <<222, 173, 190, 239, 254, 237>>
Socks == 0..MaxSock
ConnModes == {SNMR_TCP, SNMR_UDP, SNMR_MACRAW}
Runtimes == {"circuitpython", "cpython"}

---------------------------------------------------------------------------
(* Helpers.                                                                *)

SetMin(S) == CHOOSE x \in S : \A y \in S : x <= y

\* max_sockets property for self._chip_type = ct
MaxSocketsOf(ct) == IF ct = "w5500" THEN W5200_W5500_MAX_SOCK_NUM ELSE -1

\* max_sockets property: _chip_type is "w5500" once __init__ has returned
max_sockets == MaxSocketsOf("w5500")

AllSocks == 0..(W5200_W5500_MAX_SOCK_NUM - 1)

Return(v) == [kind |-> "return", val |-> v]
Raise(e) == [kind |-> "raise", val |-> e]
Pending == [kind |-> "none", val |-> "none"]
\* polled: the status read last; val_1, val, prev: the first read of Sn_RX_RSR, the
\* latest read of the loop and the read before that one (<<>>: none yet); ret: the
\* local ret; addr: the bus address of the buffer access made (-1: none)
NoLoc == [polled |-> -1, val_1 |-> <<>>, val |-> <<>>, prev |-> <<>>, ret |-> -2,
          addr |-> -1]

Call(op, n, a) == [op |-> op, sock |-> n, arg |-> a]

\* write(): bytes([addr >> 8]), bytes([addr & 0xFF]), bytes([cb]), bytes([data])
\* raise ValueError unless every value is in range(256)
WriteOk(addr, cb, data) ==
    /\ addr \div 256 \in 0..255
    /\ cb \in 0..255
    /\ data \in 0..255

\* _write_socket: the address and control byte of the bus transaction
WriteSocketAddr(sock, address) == ch_base_msb * 256 + sock * CH_SIZE + address
WriteSocketCb(sock) == sock * 32 + 12

\* _read_socket: the address and control byte of the bus transaction
ReadSocketAddr(sock, address) == address
ReadSocketCb(sock) == sock * 32 + 8

\* read(): bytes([addr >> 8]), bytes([addr & 0xFF]), bytes([cb]) raise ValueError
\* unless every value is in range(256)
ReadOk(addr, cb) ==
    /\ addr \div 256 \in 0..255
    /\ cb \in 0..255

\* a _read_socket(sock, address) that read() gives up: the device is selected, the
\* two address bytes are sent, bytes([cb]) raises and nothing is read
ReadAborted(sock, address) ==
    [addr |-> ReadSocketAddr(sock, address), cb |-> ReadSocketCb(sock),
     data |-> <<>>]

\* one _write_socket(sock, address, data) transaction as logged
W(sock, address, data) ==
    [addr |-> WriteSocketAddr(sock, address), cb |-> WriteSocketCb(sock),
     data |-> <<data>>]

\* the slot a socket-register write is addressed to (control byte bits 7..5)
\* and the register offset within the slot's block
SlotOf(w) == w.cb \div 32
RegOf(w) == w.addr - WriteSocketAddr(SlotOf(w), 0)

IsCmd(w, cmd) == RegOf(w) = REG_SNCR /\ w.data = <<cmd>>

---------------------------------------------------------------------------
(* The chip's identity.                                                    *)

\* what answers on the bus: the byte its version register reads, the mode
\* register bits it stores, and whether its reset bit clears itself
ChipId(version, mrbits, resets) ==
    [version |-> version, mrbits |-> mrbits, resets |-> resets]

\* a W5500: VERSIONR reads 0x04, MR stores the PPPoE (0x08) and ping-block (0x10) bits
W5500Chip == ChipId(VERSIONR_W5500_VALUE, {8, 16}, TRUE)

---------------------------------------------------------------------------
(* State after __init__ has returned.                                      *)

\* a driver just constructed: every slot CLOSED (sw_reset), no allocation yet
InitFresh ==
    /\ src_port = 0
    /\ snsr = [k \in AllSocks |-> SNSR_SOCK_CLOSED]

\* a driver that has made PortNearWrap allocations and has opened (socket_open
\* in TCP mode, status INIT) the slots no caller of this model passes
InitAged ==
    /\ src_port = PortNearWrap
    /\ snsr = [k \in AllSocks |->
                  IF k \in Socks THEN SNSR_SOCK_CLOSED ELSE SNSR_SOCK_INIT]

Init ==
    /\ runtime \in Runtimes
    /\ InitFresh \/ InitAged
    /\ link = 1
    /\ snir = [k \in AllSocks |-> 0]
    /\ rx_rsr = [k \in AllSocks |-> 0]
    /\ rx_rd = [k \in AllSocks |-> 0]
    /\ tx_wr = [k \in AllSocks |-> 0]
    /\ pc = "idle"
    /\ call = Call("none", 0, 0)
    /\ result = Pending
    /\ wlog = <<>>
    /\ loc = NoLoc
    /\ live = {}
    /\ alloc_port = [k \in AllSocks |-> 0]
    /\ before_read = Call("none", 0, 0)
    /\ iosock = 0
    /\ chip_type = "w5500"
    /\ mr = 0
    /\ chipid = W5500Chip

---------------------------------------------------------------------------
(* get_socket                                                              *)

\* the three statuses the scan takes for a free slot
FreeStatus(s) ==
    s \in {SNSR_SOCK_CLOSED, SNSR_SOCK_FIN_WAIT, SNSR_SOCK_CLOSE_WAIT}

\* sock = 0; for _sock in range(0, max_sockets): first slot with a free status
ScanSock(st) ==
    LET free == {k \in 0..(max_sockets - 1) : FreeStatus(st[k])}
    IN  IF free = {} THEN 0 ELSE SetMin(free)

\* a plausible slip: the scan leaves the sentinel max_sockets when it finds
\* nothing and get_socket returns it unchecked
GetSocketReturn_sentinel(st) ==
    LET free == {k \in 0..(max_sockets - 1) : FreeStatus(st[k])}
    IN  IF free = {} THEN max_sockets ELSE SetMin(free)

\* the value get_socket returns
GetSocketReturn(st) ==
    IF ScanSock(st) = max_sockets THEN 0 ELSE ScanSock(st)

\* self._src_port += 1; if self._src_port == 0: self._src_port = 1024
\* (Python integers do not overflow)
NextSrcPort(st, p) ==
    IF ScanSock(st) = max_sockets THEN p
    ELSE IF p + 1 = 0 THEN 1024 ELSE p + 1

\* the status the scan read last: the free slot's, or the last slot's when none is free
LastScanned(st) ==
    IF \E k \in 0..(max_sockets - 1) : FreeStatus(st[k])
    THEN st[ScanSock(st)] ELSE st[max_sockets - 1]

AllocAllowed ==
    \/ src_port < MaxAllocs
    \/ src_port >= PortNearWrap /\ src_port < PortNearWrap + MaxAllocs

get_socket ==
    /\ pc = "idle"
    /\ before_read' = Call("none", 0, 0)
    /\ AllocAllowed
    /\ call' = Call("get_socket", 0, 0)
    /\ result' = Return(GetSocketReturn(snsr))
    /\ src_port' = NextSrcPort(snsr, src_port)
    /\ wlog' = <<>>
    /\ loc' = [NoLoc EXCEPT !.polled = LastScanned(snsr)]
    /\ live' = live \cup {GetSocketReturn(snsr)}
    /\ alloc_port' = [alloc_port EXCEPT ![GetSocketReturn(snsr)] = NextSrcPort(snsr, src_port)]
    /\ UNCHANGED <<runtime, iosock, chip_type, mr, chipid, link, snsr, snir, rx_rsr, rx_rd, tx_wr, pc>>

---------------------------------------------------------------------------
(* socket_open                                                             *)

\* the status the chip takes on OPEN, from the protocol bits of the mode written
OpenStatus(mode) ==
    IF mode = SNMR_TCP THEN SNSR_SOCK_INIT
    ELSE IF mode = SNMR_UDP THEN SNSR_SOCK_UDP
    ELSE SNSR_SOCK_MACRAW

\* _write_snmr, _write_snir(0xFF): the writes made before the source port is looked at
OpenHead(n, mode) == <<W(n, REG_SNMR, mode), W(n, REG_SNIR, 255)>>

\* _write_sock_port, _write_sndipr, _write_sndport, _write_sncr(CMD_SOCK_OPEN)
OpenTail(n, sport) ==
    <<W(n, REG_SNPORT, sport \div 256), W(n, REG_SNPORT + 1, sport % 256),
      W(n, REG_SNDIPR, DestAddr[1]), W(n, REG_SNDIPR + 1, DestAddr[2]),
      W(n, REG_SNDIPR + 2, DestAddr[3]), W(n, REG_SNDIPR + 3, DestAddr[4]),
      W(n, REG_SNDPORT, DestPort \div 256), W(n, REG_SNDPORT + 1, DestPort % 256),
      W(n, REG_SNCR, CMD_SOCK_OPEN)>>

\* a plausible slip: the link assertion left out of socket_open
OpenEffect_nolink(n, mode, lnk, st, sport) ==
    IF st # SNSR_SOCK_CLOSED
    THEN [res |-> Return(1), log |-> <<>>, st |-> st, polled |-> st, cleared |-> FALSE]
    ELSE IF sport <= 0
    THEN [res |-> Raise("NameError:LOCAL_PORT"), log |-> OpenHead(n, mode),
          st |-> st, polled |-> st, cleared |-> TRUE]
    ELSE IF sport \div 256 > 255
    THEN [res |-> Raise("ValueError:bytes"), log |-> OpenHead(n, mode),
          st |-> st, polled |-> st, cleared |-> TRUE]
    ELSE [res |-> IF OpenStatus(mode) \in {19, 34}
                  THEN Return(0) ELSE Raise("AssertionError:open"),
          log |-> OpenHead(n, mode) \o OpenTail(n, sport),
          st |-> OpenStatus(mode), polled |-> OpenStatus(mode), cleared |-> TRUE]

\* socket_open(socket_num = n, dest, port, conn_mode = mode) run with link bit lnk,
\* slot status st and self._src_port = sport: what it returns or raises (res), the
\* writes it makes (log), the slot's status afterwards (st), the last status it read
\* (polled) and whether it wrote 0xFF to the interrupt register (cleared)
OpenEffect(n, mode, lnk, st, sport) ==
    IF lnk = 0
    THEN [res |-> Raise("AssertionError:link"), log |-> <<>>, st |-> st,
          polled |-> -1, cleared |-> FALSE]
    ELSE IF st # SNSR_SOCK_CLOSED
    THEN [res |-> Return(1), log |-> <<>>, st |-> st, polled |-> st, cleared |-> FALSE]
    ELSE IF sport <= 0
    THEN [res |-> Raise("NameError:LOCAL_PORT"), log |-> OpenHead(n, mode),
          st |-> st, polled |-> st, cleared |-> TRUE]
    ELSE IF sport \div 256 > 255
    THEN [res |-> Raise("ValueError:bytes"), log |-> OpenHead(n, mode),
          st |-> st, polled |-> st, cleared |-> TRUE]
    ELSE [res |-> IF OpenStatus(mode) \in {19, 34}
                  THEN Return(0) ELSE Raise("AssertionError:open"),
          log |-> OpenHead(n, mode) \o OpenTail(n, sport),
          st |-> OpenStatus(mode), polled |-> OpenStatus(mode), cleared |-> TRUE]

\* socket_open up to its time.sleep(0.00025): the link assertion and the status
\* read; it ends here unless the status read is CLOSED
socket_open(n, mode) ==
    /\ pc = "idle"
    /\ before_read' = Call("none", 0, 0)
    /\ call' = Call("socket_open", n, mode)
    /\ wlog' = <<>>
    /\ LET e == OpenEffect(n, mode, link, snsr[n], src_port)
       IN  IF e.cleared
           THEN /\ result' = Pending
                /\ loc' = [NoLoc EXCEPT !.polled = snsr[n]]
                /\ pc' = "open_sleep"
           ELSE /\ result' = e.res
                /\ loc' = [NoLoc EXCEPT !.polled = e.polled]
                /\ UNCHANGED pc
    /\ UNCHANGED <<runtime, iosock, chip_type, mr, chipid, src_port, link, snsr, snir, rx_rsr, rx_rd, tx_wr, live, alloc_port>>

---------------------------------------------------------------------------
(* socket_close                                                            *)

\* a plausible slip: the CLOSE command issued without the interrupt flags cleared
CloseEffect_noclear(n, lnk) ==
    IF lnk = 0
    THEN [res |-> Raise("AssertionError:link"), log |-> <<>>, closed |-> FALSE,
          cleared |-> FALSE]
    ELSE [res |-> Return("None"),
          log |-> <<W(n, REG_SNCR, CMD_SOCK_CLOSE)>>,
          closed |-> TRUE, cleared |-> FALSE]

\* socket_close(socket_num = n) run with link bit lnk: what it returns or raises
\* (res), the writes it makes (log), whether it issued CLOSE (closed) and whether
\* it wrote 0xFF to the interrupt register (cleared)
CloseEffect(n, lnk) ==
    IF lnk = 0
    THEN [res |-> Raise("AssertionError:link"), log |-> <<>>, closed |-> FALSE,
          cleared |-> FALSE]
    ELSE [res |-> Return("None"),
          log |-> <<W(n, REG_SNCR, CMD_SOCK_CLOSE), W(n, REG_SNIR, 255)>>,
          closed |-> TRUE, cleared |-> TRUE]

socket_close(n) ==
    /\ pc = "idle"
    /\ before_read' = Call("none", 0, 0)
    /\ LET e == CloseEffect(n, link)
       IN  /\ call' = Call("socket_close", n, 0)
           /\ result' = e.res
           /\ wlog' = e.log
           /\ snsr' = IF e.closed THEN [snsr EXCEPT ![n] = SNSR_SOCK_CLOSED] ELSE snsr
           /\ snir' = IF e.cleared THEN [snir EXCEPT ![n] = 0] ELSE snir
           /\ live' = IF e.closed THEN live \ {n} ELSE live
           /\ alloc_port' = IF e.closed THEN [alloc_port EXCEPT ![n] = 0] ELSE alloc_port
    /\ loc' = NoLoc
    /\ UNCHANGED <<runtime, iosock, chip_type, mr, chipid, src_port, link, rx_rsr, rx_rd, tx_wr, pc>>

---------------------------------------------------------------------------
(* socket_connect                                                          *)

\* conn_mode == SNMR_TCP inside the method body: SNMR_TCP is a class attribute
\* assigned with const(); the CircuitPython compiler substitutes the constant,
\* CPython looks the bare name up in the module's globals and raises NameError
ModeIsTcp(rt, mode) ==
    IF rt = "cpython" THEN "NameError" ELSE IF mode = SNMR_TCP THEN "yes" ELSE "no"

\* _write_sncr(self._sock, CMD_SOCK_CONNECT): the slot the command is written to
ConnectCmdSock(n) == self_sock

\* the chip executes CONNECT on a slot in status INIT and ignores it otherwise
ChipConnect(st, k) ==
    [st EXCEPT ![k] = IF @ = SNSR_SOCK_INIT THEN SNSR_SOCK_SYNSENT ELSE @]

\* socket_connect up to the time.sleep(0.00025) of the socket_open it calls: its
\* own link assertion, then socket_open's link assertion and status read
socket_connect(n, mode) ==
    /\ pc = "idle"
    /\ before_read' = Call("none", 0, 0)
    /\ call' = Call("socket_connect", n, mode)
    /\ wlog' = <<>>
    /\ LET e == OpenEffect(n, mode, link, snsr[n], src_port)
       IN  IF link = 0
           THEN /\ result' = Raise("AssertionError:link")
                /\ loc' = NoLoc
                /\ UNCHANGED pc
           ELSE IF e.cleared
           THEN /\ result' = Pending
                /\ loc' = [NoLoc EXCEPT !.polled = snsr[n]]
                /\ pc' = "open_sleep"
           ELSE /\ result' = IF e.res.kind = "raise" THEN e.res
                             ELSE Raise("RuntimeError:init")
                /\ loc' = [NoLoc EXCEPT !.polled = e.polled]
                /\ UNCHANGED pc
    /\ UNCHANGED <<runtime, iosock, chip_type, mr, chipid, src_port, link, snsr, snir, rx_rsr, rx_rd, tx_wr, live, alloc_port>>

\* socket_open from the end of its time.sleep(0.00025) on, with the link bit and
\* the status as they were read before it, and for a socket_connect the rest of
\* its body up to the first poll of the loop
open_write ==
    /\ pc = "open_sleep"
    /\ LET n == call.sock
           mode == call.arg
           e == OpenEffect(n, mode, 1, loc.polled, src_port)
           opened == [snsr EXCEPT ![n] = e.st]
           tcp == ModeIsTcp(runtime, mode)
       IN  /\ snir' = [snir EXCEPT ![n] = 0]
           /\ loc' = [NoLoc EXCEPT !.polled = e.polled]
           /\ IF call.op = "socket_open" \/ e.res.kind = "raise"
              THEN /\ result' = e.res
                   /\ wlog' = e.log
                   /\ snsr' = opened
                   /\ pc' = "idle"
              ELSE IF tcp = "NameError"
              THEN /\ result' = Raise("NameError:SNMR_TCP")
                   /\ wlog' = e.log
                   /\ snsr' = opened
                   /\ pc' = "idle"
              ELSE IF tcp = "yes"
              THEN /\ result' = Pending
                   /\ wlog' = Append(e.log, W(ConnectCmdSock(n), REG_SNCR, CMD_SOCK_CONNECT))
                   /\ snsr' = ChipConnect(opened, ConnectCmdSock(n))
                   /\ pc' = "connect_poll1"
              ELSE /\ result' = Return(1)
                   /\ wlog' = e.log
                   /\ snsr' = opened
                   /\ pc' = "idle"
    /\ UNCHANGED <<runtime, iosock, chip_type, mr, chipid, src_port, link, rx_rsr, rx_rd, tx_wr,
                   call, live, alloc_port, before_read>>

\* a plausible slip: the loop waits only while the handshake is in progress and
\* takes any other status for a connection
ConnectLoopExit_anyother(s) == s # SNSR_SOCK_SYNSENT /\ s # SNSR_SOCK_INIT

\* while self.socket_status(socket_num)[0] != SNSR_SOCK_ESTABLISHED: the loop is left
ConnectLoopExit(s) == s = SNSR_SOCK_ESTABLISHED

\* the loop condition: one poll of the slot's status
connect_poll1 ==
    /\ pc = "connect_poll1"
    /\ loc' = [loc EXCEPT !.polled = snsr[call.sock]]
    /\ IF ConnectLoopExit(snsr[call.sock])
       THEN pc' = "idle" /\ result' = Return(1)
       ELSE pc' = "connect_poll2" /\ UNCHANGED result
    /\ UNCHANGED <<runtime, iosock, chip_type, mr, chipid, src_port, link, snsr, snir, rx_rsr, rx_rd, tx_wr,
                   call, wlog, live, alloc_port, before_read>>

\* the loop body: a second poll, RuntimeError on CLOSED, otherwise time.sleep(1)
connect_poll2 ==
    /\ pc = "connect_poll2"
    /\ loc' = [loc EXCEPT !.polled = snsr[call.sock]]
    /\ IF snsr[call.sock] = SNSR_SOCK_CLOSED
       THEN pc' = "idle" /\ result' = Raise("RuntimeError:connect")
       ELSE pc' = "connect_poll1" /\ UNCHANGED result
    /\ UNCHANGED <<runtime, iosock, chip_type, mr, chipid, src_port, link, snsr, snir, rx_rsr, rx_rd, tx_wr,
                   call, wlog, live, alloc_port, before_read>>

---------------------------------------------------------------------------
(* The chip between the driver's bus transactions.                         *)

\* the status changes the W5500 makes on its own (peer and timer events); it leaves
\* CLOSED, INIT and UDP only on a command
ChipStatusNext(s) ==
    IF s = SNSR_SOCK_SYNSENT THEN {SNSR_SOCK_ESTABLISHED, SNSR_SOCK_CLOSED}
    ELSE IF s = SNSR_SOCK_ESTABLISHED THEN {SNSR_SOCK_CLOSE_WAIT, SNSR_SOCK_CLOSED}
    ELSE IF s = SNSR_SOCK_CLOSE_WAIT THEN {SNSR_SOCK_CLOSED}
    ELSE {}

ChipStatusChange(n) ==
    /\ \E s \in ChipStatusNext(snsr[n]) : snsr' = [snsr EXCEPT ![n] = s]
    /\ UNCHANGED <<runtime, iosock, chip_type, mr, chipid, src_port, link, snir, rx_rsr, rx_rd, tx_wr,
                   pc, call, result, wlog, loc, live, alloc_port, before_read>>

\* the cable is plugged or unplugged
LinkChange ==
    /\ link' = 1 - link
    /\ UNCHANGED <<runtime, iosock, chip_type, mr, chipid, src_port, snsr, snir, rx_rsr, rx_rd, tx_wr,
                   pc, call, result, wlog, loc, live, alloc_port, before_read>>

---------------------------------------------------------------------------
(* Python values.                                                          *)

\* status == SNSR_SOCK_xxx where status is the bytearray read() returned and the
\* right side an int: a bytearray never equals an int
BytesEqInt(b, i) == FALSE

\* the two-byte bytearray _read_snrx_rsr / _read_sntx_fsr build from a 16-bit register
RegBytes(v) == <<v \div 256, v % 256>>

\* int.from_bytes(ret, 'b'): CircuitPython takes every byteorder other than
\* 'little' for big-endian; CPython raises ValueError for 'b'
FromBytesBRaises(rt) == rt = "cpython"
FromBytesB(b) == b[1] * 256 + b[2]

---------------------------------------------------------------------------
(* socket_write                                                            *)

IoSocks == 0..MaxIoSock

LongBuf == [i \in 1..(SOCK_SIZE + OverSize) |-> i % 256]
Bufs == {<<>>, <<171>>, <<171, 205>>, LongBuf}

\* _get_tx_free_size: val = 0; val_1 = 0; while (val != val_1) is false at once,
\* the register is never read and 0 is returned
GetTxFreeSize(fsr) == 0

\* the chip's Sn_TX_FSR when a write begins: every earlier SEND has completed
\* (socket_write returns only then), so the whole TX buffer is free
ChipTxFsr == SOCK_SIZE

\* ret = SOCK_SIZE if len(buffer) > SOCK_SIZE else len(buffer)
Clamp(len) == IF len > SOCK_SIZE THEN SOCK_SIZE ELSE len

\* the wait for free space polls the status: TRUE when the loop body is entered
WritePollsStatus(len) == GetTxFreeSize(ChipTxFsr) < Clamp(len)

\* ret after the wait for free space, with st the status the loop polls:
\* (status != SNSR_SOCK_ESTABLISHED) and (status != SNSR_SOCK_CLOSE_WAIT) => ret = 0
WriteRet(len, st) ==
    IF ~WritePollsStatus(len) THEN Clamp(len)
    ELSE IF ~BytesEqInt(<<st>>, SNSR_SOCK_ESTABLISHED)
            /\ ~BytesEqInt(<<st>>, SNSR_SOCK_CLOSE_WAIT)
    THEN 0
    ELSE Clamp(len)

\* dst_addr = (ptr & 0x07FF) + (socket_num * 2048 + 0x8000); cntl_byte = 0x14 + (n << 5)
TxDstAddr(n, ptr) == (ptr % 2048) + (n * 2048 + 32768)
TxCb(n) == 20 + n * 32

\* ptr += len(buffer): the value handed to _write_sntx_wr
TxNewPtr(ptr, buf) == ptr + Len(buf)

\* the writes of socket_write: _write_sntx_wr(ptr), _write_n(dst_addr, cntl_byte,
\* buffer), _write_sncr(CMD_SOCK_SEND)
WriteWrites(n, new, dst, buf) ==
    <<W(n, REG_SNTX_WR, new \div 256), W(n, REG_SNTX_WR + 1, new % 256),
      [addr |-> dst, cb |-> TxCb(n), data |-> buf],
      W(n, REG_SNCR, CMD_SOCK_SEND)>>

PtrStartOk(p) == p < MaxPtrStart \/ p >= PtrNearWrap

\* the register socket_write reads first: _get_tx_free_size returns 0 without a
\* bus access (val == val_1 == 0), so it is the status polled in the loop on the
\* free space when that loop is entered, the write pointer (0x0024) otherwise
FirstReadOfWrite(len) == IF WritePollsStatus(len) THEN REG_SNSR ELSE REG_SNTX_WR

socket_write(n, buf) ==
    /\ pc = "idle"
    /\ before_read' = Call("none", 0, 0)
    /\ n \in AllSocks => PtrStartOk(tx_wr[n])
    /\ call' = Call("socket_write", n, buf)
    /\ LET ptr == tx_wr[n]
           new == TxNewPtr(ptr, buf)
           dst == TxDstAddr(n, ptr)
       IN  IF link = 0
           THEN /\ result' = Raise("AssertionError:link")
                /\ wlog' = <<>>
                /\ loc' = NoLoc
                /\ UNCHANGED <<tx_wr, pc>>
           ELSE IF ~(n <= max_sockets)
           THEN /\ result' = Raise("AssertionError:max_sockets")
                /\ wlog' = <<>>
                /\ loc' = NoLoc
                /\ UNCHANGED <<tx_wr, pc>>
           ELSE IF ~ReadOk(ReadSocketAddr(n, FirstReadOfWrite(Len(buf))), ReadSocketCb(n))
           THEN /\ result' = Raise("ValueError:bytes")
                /\ wlog' = <<ReadAborted(n, FirstReadOfWrite(Len(buf)))>>
                /\ loc' = NoLoc
                /\ UNCHANGED <<tx_wr, pc>>
           ELSE IF ~WriteOk(WriteSocketAddr(n, REG_SNTX_WR), WriteSocketCb(n), new \div 256)
           THEN /\ result' = Raise("ValueError:bytes")
                /\ wlog' = <<>>
                /\ loc' = [NoLoc EXCEPT !.ret = WriteRet(Len(buf), snsr[n]),
                                        !.polled = IF WritePollsStatus(Len(buf))
                                                   THEN snsr[n] ELSE -1]
                /\ UNCHANGED <<tx_wr, pc>>
           ELSE /\ result' = Pending
                /\ wlog' = WriteWrites(n, new, dst, buf)
                /\ tx_wr' = [tx_wr EXCEPT ![n] = new]
                /\ loc' = [NoLoc EXCEPT !.ret = WriteRet(Len(buf), snsr[n]),
                                        !.polled = IF WritePollsStatus(Len(buf))
                                                   THEN snsr[n] ELSE -1,
                                        !.addr = dst]
                /\ pc' = "send_wait"
    /\ UNCHANGED <<runtime, iosock, chip_type, mr, chipid, src_port, link, snsr, snir, rx_rsr, rx_rd, live, alloc_port>>

\* (self._read_snir(socket_num)[0] & SNIR_SEND_OK) == SNIR_SEND_OK
SendOkSet(ir) == (ir \div SNIR_SEND_OK) % 2 = 1

\* one turn of the wait for SEND_OK: leave with _write_snir(SNIR_SEND_OK) and return
\* ret, or poll the status (status == SNSR_SOCK_CLOSED compares a bytearray with an
\* int), sleep and stay
send_poll ==
    /\ pc = "send_wait"
    /\ IF SendOkSet(snir[call.sock])
       THEN /\ wlog' = Append(wlog, W(call.sock, REG_SNIR, SNIR_SEND_OK))
            /\ snir' = [snir EXCEPT ![call.sock] = @ - SNIR_SEND_OK]
            /\ result' = Return(loc.ret)
            /\ pc' = "idle"
            /\ UNCHANGED <<loc, snsr, live, alloc_port>>
       ELSE IF BytesEqInt(<<snsr[call.sock]>>, SNSR_SOCK_CLOSED)
       THEN /\ wlog' = wlog \o CloseEffect(call.sock, link).log
            /\ result' = IF link = 0 THEN Raise("AssertionError:link") ELSE Return(0)
            /\ snsr' = IF link = 0 THEN snsr
                       ELSE [snsr EXCEPT ![call.sock] = SNSR_SOCK_CLOSED]
            /\ snir' = IF link = 0 THEN snir ELSE [snir EXCEPT ![call.sock] = 0]
            /\ live' = IF link = 0 THEN live ELSE live \ {call.sock}
            /\ alloc_port' = IF link = 0 THEN alloc_port
                              ELSE [alloc_port EXCEPT ![call.sock] = 0]
            /\ loc' = [loc EXCEPT !.polled = snsr[call.sock]]
            /\ pc' = "idle"
       ELSE /\ loc' = [loc EXCEPT !.polled = snsr[call.sock]]
            /\ UNCHANGED <<wlog, snir, result, pc, snsr, live, alloc_port>>
    /\ UNCHANGED <<runtime, iosock, chip_type, mr, chipid, src_port, link, rx_rsr, rx_rd, tx_wr, call, before_read>>

\* the chip reports the SEND it was given as completed
ChipSendOk(n) ==
    /\ pc = "send_wait"
    /\ call.sock = n
    /\ snsr[n] \in {SNSR_SOCK_ESTABLISHED, SNSR_SOCK_CLOSE_WAIT, SNSR_SOCK_UDP}
    /\ ~SendOkSet(snir[n])
    /\ snir' = [snir EXCEPT ![n] = @ + SNIR_SEND_OK]
    /\ UNCHANGED <<runtime, iosock, chip_type, mr, chipid, src_port, link, snsr, rx_rsr, rx_rd, tx_wr,
                   pc, call, result, wlog, loc, live, alloc_port, before_read>>

---------------------------------------------------------------------------
(* socket_read                                                             *)

ReadLens == 0..MaxReadLen

\* resp = self.read(ptr, ctrl_byte, ret): the address and control byte
RxSrcAddr(n, ptr) == ptr
RxCb(n) == 24 + n * 32

\* the byte the chip holds in slot n's RX memory at address a (received data)
ChipRxByte(n, a) == (3 * a + n + 1) % 256

RxRead(n, ptr, ret) ==
    [i \in 1..ret |-> ChipRxByte(n, (RxSrcAddr(n, ptr) + i - 1) % 65536)]

\* ret after the branch on the available count, st the status polled when it is 0:
\* status == SNSR_SOCK_LISTEN or ... compares the bytearray with ints
ReadRet(avail, length, st) ==
    IF avail = 0
    THEN IF \/ BytesEqInt(<<st>>, SNSR_SOCK_LISTEN)
            \/ BytesEqInt(<<st>>, SNSR_SOCK_CLOSED)
            \/ BytesEqInt(<<st>>, SNSR_SOCK_CLOSE_WAIT)
         THEN 0 ELSE -1
    ELSE IF avail > length THEN length ELSE avail

\* socket_read up to the first read of Sn_RX_RSR in _get_rx_rcv_size (val_1)
socket_read(n, length) ==
    /\ pc = "idle"
    /\ call' = Call("socket_read", n, length)
    /\ before_read' = IF call.op = "socket_write" THEN call ELSE Call("none", 0, 0)
    /\ IF link = 0
       THEN /\ result' = Raise("AssertionError:link")
            /\ wlog' = <<>>
            /\ loc' = NoLoc
            /\ UNCHANGED pc
       ELSE IF ~(n <= max_sockets)
       THEN /\ result' = Raise("AssertionError:max_sockets")
            /\ wlog' = <<>>
            /\ loc' = NoLoc
            /\ UNCHANGED pc
       ELSE IF ~ReadOk(ReadSocketAddr(n, REG_SNRX_RSR), ReadSocketCb(n))
       THEN /\ result' = Raise("ValueError:bytes")
            /\ wlog' = <<ReadAborted(n, REG_SNRX_RSR)>>
            /\ loc' = NoLoc
            /\ UNCHANGED pc
       ELSE /\ result' = Pending
            /\ wlog' = <<>>
            /\ loc' = [NoLoc EXCEPT !.val_1 = RegBytes(rx_rsr[n])]
            /\ pc' = "rx_size"
    /\ UNCHANGED <<runtime, iosock, chip_type, mr, chipid, src_port, link, snsr, snir, rx_rsr, rx_rd, tx_wr, live, alloc_port>>

\* while (val != val_1): val = self._read_snrx_rsr(sock): the loop is left when a
\* read equals the first read
RxSizeStable(val, val_1) == val = val_1

\* a plausible slip: the chip told of the read before the pointer is written
ReadWrites_recvfirst(n, new) ==
    <<W(n, REG_SNCR, CMD_SOCK_RECV),
      W(n, REG_SNRX_RD, new \div 256), W(n, REG_SNRX_RD + 1, new % 256)>>

\* the writes of socket_read after the data was read: _write_snrx_rd(ptr), then
\* _write_sncr(CMD_SOCK_RECV)
ReadWrites(n, new) ==
    <<W(n, REG_SNRX_RD, new \div 256), W(n, REG_SNRX_RD + 1, new % 256),
      W(n, REG_SNCR, CMD_SOCK_RECV)>>

\* one read of the loop of _get_rx_rcv_size and, when it leaves the loop, the rest
\* of socket_read
rx_size_poll ==
    /\ pc = "rx_size"
    /\ LET n == call.sock
           val == RegBytes(rx_rsr[n])
           avail == FromBytesB(val)
           ret == ReadRet(avail, call.arg, snsr[n])
           ptr == rx_rd[n]
           new == ptr + ret
           read == [loc EXCEPT !.val = val,
                               !.prev = IF loc.val = <<>> THEN loc.val_1 ELSE loc.val]
       IN  IF ~RxSizeStable(val, loc.val_1)
           THEN loc' = read /\ UNCHANGED <<pc, result, wlog, rx_rd, rx_rsr>>
           ELSE /\ pc' = "idle"
                /\ IF FromBytesBRaises(runtime)
                   THEN /\ result' = Raise("ValueError:byteorder")
                        /\ loc' = read
                        /\ UNCHANGED <<wlog, rx_rd, rx_rsr>>
                   ELSE /\ loc' = [read EXCEPT !.ret = ret,
                                               !.polled = IF avail = 0 THEN snsr[n] ELSE -1,
                                               !.addr = IF ret > 0 THEN RxSrcAddr(n, ptr)
                                                        ELSE -1]
                        /\ IF ret > 0
                           THEN IF WriteOk(WriteSocketAddr(n, REG_SNRX_RD),
                                           WriteSocketCb(n), new \div 256)
                                THEN /\ wlog' = ReadWrites(n, new)
                                     /\ rx_rd' = [rx_rd EXCEPT ![n] = new]
                                     /\ rx_rsr' = [rx_rsr EXCEPT ![n] = @ - ret]
                                     /\ result' = Return(<<ret, RxRead(n, ptr, ret)>>)
                                ELSE /\ result' = Raise("ValueError:bytes")
                                     /\ UNCHANGED <<wlog, rx_rd, rx_rsr>>
                           ELSE /\ result' = Raise("UnboundLocalError:resp")
                                /\ UNCHANGED <<wlog, rx_rd, rx_rsr>>
    /\ UNCHANGED <<runtime, iosock, chip_type, mr, chipid, src_port, link, snsr, snir, tx_wr, call, live, alloc_port, before_read>>

\* the interrupt register with one flag raised
IrRaise(ir, flag) == IF (ir \div flag) % 2 = 1 THEN ir ELSE ir + flag

\* the chip receives one more byte on an open connection and raises the RECV flag
ChipReceive(n) ==
    /\ snsr[n] \in {SNSR_SOCK_ESTABLISHED, SNSR_SOCK_UDP}
    /\ rx_rsr[n] < MaxRx
    /\ PtrStartOk(rx_rd[n])
    /\ rx_rsr' = [rx_rsr EXCEPT ![n] = @ + 1]
    /\ snir' = [snir EXCEPT ![n] = IrRaise(@, SNIR_RECV)]
    /\ UNCHANGED <<runtime, iosock, chip_type, mr, chipid, src_port, link, snsr, rx_rd, tx_wr,
                   pc, call, result, wlog, loc, live, alloc_port, before_read>>

---------------------------------------------------------------------------
(* socket_available                                                        *)

\* socket_available up to the first read of Sn_RX_RSR in _get_rx_rcv_size (val_1);
\* the link is not looked at
socket_available(n) ==
    /\ pc = "idle"
    /\ call' = Call("socket_available", n, 0)
    /\ before_read' = Call("none", 0, 0)
    /\ IF ~(n <= max_sockets)
       THEN /\ result' = Raise("AssertionError:max_sockets")
            /\ wlog' = <<>>
            /\ loc' = NoLoc
            /\ UNCHANGED pc
       ELSE IF ~ReadOk(ReadSocketAddr(n, REG_SNRX_RSR), ReadSocketCb(n))
       THEN /\ result' = Raise("ValueError:bytes")
            /\ wlog' = <<ReadAborted(n, REG_SNRX_RSR)>>
            /\ loc' = NoLoc
            /\ UNCHANGED pc
       ELSE /\ result' = Pending
            /\ wlog' = <<>>
            /\ loc' = [NoLoc EXCEPT !.val_1 = RegBytes(rx_rsr[n])]
            /\ pc' = "avail_size"
    /\ UNCHANGED <<runtime, iosock, chip_type, mr, chipid, src_port, link, snsr, snir, rx_rsr, rx_rd, tx_wr, live, alloc_port>>

\* one read of the loop of _get_rx_rcv_size and, when it leaves the loop,
\* return int.from_bytes(res, 'b')
avail_poll ==
    /\ pc = "avail_size"
    /\ LET val == RegBytes(rx_rsr[call.sock])
           read == [loc EXCEPT !.val = val,
                               !.prev = IF loc.val = <<>> THEN loc.val_1 ELSE loc.val]
       IN  /\ loc' = read
           /\ IF ~RxSizeStable(val, loc.val_1)
              THEN UNCHANGED <<pc, result>>
              ELSE /\ pc' = "idle"
                   /\ result' = IF FromBytesBRaises(runtime)
                                 THEN Raise("ValueError:byteorder")
                                 ELSE Return(FromBytesB(val))
    /\ UNCHANGED <<runtime, iosock, chip_type, mr, chipid, src_port, link, snsr, snir, rx_rsr, rx_rd, tx_wr,
                   call, wlog, live, alloc_port, before_read>>

---------------------------------------------------------------------------

Next ==
    \/ get_socket
    \/ \E n \in Socks, mode \in ConnModes : socket_open(n, mode)
    \/ \E n \in Socks, mode \in ConnModes : socket_connect(n, mode)
    \/ open_write
    \/ connect_poll1
    \/ connect_poll2
    \/ \E n \in Socks : socket_close(n)
    \/ \E n \in Socks : ChipStatusChange(n)
    \/ LinkChange

Spec == Init /\ [][Next]_vars

---------------------------------------------------------------------------
(* The buffer transfers: an application that has allocated the slots up to    *)
(* iosock with get_socket (src_port = iosock + 1), has opened the ones below   *)
(* iosock (status INIT) and makes its calls on iosock, on a chip that has      *)
(* moved 0 or PtrNearWrap bytes through each slot; in CPython socket_read      *)
(* never gets as far as the read pointer.                                      *)

IoModes == {SNMR_TCP, SNMR_UDP}

InitIo ==
    /\ runtime \in Runtimes
    /\ iosock \in IoSocks
    /\ src_port = iosock + 1
    /\ snsr = [k \in AllSocks |-> IF k < iosock THEN SNSR_SOCK_INIT ELSE SNSR_SOCK_CLOSED]
    /\ link = 1
    /\ snir = [k \in AllSocks |-> 0]
    /\ rx_rsr = [k \in AllSocks |-> 0]
    /\ \E p \in {0, PtrNearWrap} :
          /\ tx_wr = [k \in AllSocks |-> p]
          /\ rx_rd = [k \in AllSocks |-> IF runtime = "cpython" THEN 0 ELSE p]
    /\ pc = "idle"
    /\ call = Call("none", 0, 0)
    /\ result = Pending
    /\ wlog = <<>>
    /\ loc = NoLoc
    /\ live = 0..iosock
    /\ alloc_port = [k \in AllSocks |-> IF k <= iosock THEN k + 1 ELSE 0]
    /\ chip_type = "w5500"
    /\ mr = 0
    /\ chipid = W5500Chip
    /\ before_read = Call("none", 0, 0)

NextIo ==
    \/ \E mode \in IoModes : socket_open(iosock, mode)
    \/ \E mode \in IoModes : socket_connect(iosock, mode)
    \/ open_write
    \/ connect_poll1
    \/ connect_poll2
    \/ socket_close(iosock)
    \/ \E buf \in Bufs : socket_write(iosock, buf)
    \/ send_poll
    \/ \E length \in ReadLens : socket_read(iosock, length)
    \/ rx_size_poll
    \/ \E n \in IoSocks : ChipStatusChange(n)
    \/ ChipSendOk(iosock)
    \/ ChipReceive(iosock)
    \/ LinkChange

SpecIo == InitIo /\ [][NextIo]_vars

---------------------------------------------------------------------------
(* The same application, also asking how much is available and also making  *)
(* calls with indices that name no slot of the chip.                         *)

\* the indices from max_sockets up that a call is made with
BadSocks == max_sockets..(max_sockets + OverIdx)
\* the buffer and the length those calls are made with
BadBufs == {<<171, 205>>}
BadLens == {MaxReadLen}

NextIndex ==
    \/ NextIo
    \/ socket_available(iosock)
    \/ avail_poll
    \/ \E n \in BadSocks : socket_available(n)
    \/ \E n \in BadSocks, buf \in BadBufs : socket_write(n, buf)
    \/ \E n \in BadSocks, length \in BadLens : socket_read(n, length)

SpecIndex == InitIo /\ [][NextIndex]_vars

---------------------------------------------------------------------------
(* __init__: _w5100_init, detect_w5500 and sw_reset, one bus round trip a   *)
(* step, against whatever answers on the bus.                              *)

Versions == {0, 3, VERSIONR_W5500_VALUE, 5, 255}
ChipIds == {ChipId(v, b, r) : v \in Versions, b \in SUBSET {8, 16}, r \in BOOLEAN}

\* a write to a common register: write(addr, 0x04, data)
WCommon(addr, data) == [addr |-> addr, cb |-> 4, data |-> <<data>>]

\* the mode register after _write_mr(data): the reset bit clears itself on a
\* chip that resets, the other bits are kept where the chip stores them
MrAfterWrite(id, data) ==
    IF data = 128 THEN (IF id.resets THEN 0 ELSE 128)
    ELSE IF data \in id.mrbits THEN data ELSE 0

\* sw_reset: 0 when the mode register reads 0x00 after the reset bit was written
SwReset(id) == IF MrAfterWrite(id, 128) # 0 THEN -1 ELSE 0

\* the round trips of detect_w5500 in order: position, pattern written, next position
MrPattern(p) ==
    IF p = "det_mr08" THEN [pat |-> 8, next |-> "det_mr10"]
    ELSE IF p = "det_mr10" THEN [pat |-> 16, next |-> "det_mr00"]
    ELSE [pat |-> 0, next |-> "det_version"]

\* a plausible slip: any W5x00 version byte at or above 0x04 taken for a W5500
VersionAccepted_atleast(v) == v >= VERSIONR_W5500_VALUE /\ v < 255

\* if self.read(REG_VERSIONR_W5500, 0x00)[0] != 0x04: return -1
VersionAccepted(v) == v = VERSIONR_W5500_VALUE

\* the 16 writes of _w5100_init: self.write(0x1E, ctrl_byte, 2), self.write(0x1F, ...)
InitBufferWrites ==
    [j \in 1..(2 * W5200_W5500_MAX_SOCK_NUM) |->
        [addr |-> 30 + ((j - 1) % 2), cb |-> 12 + ((j - 1) \div 2) * 32, data |-> <<2>>]]

InitDetect ==
    /\ runtime \in Runtimes
    /\ chipid \in ChipIds
    /\ mr \in {0} \cup chipid.mrbits
    /\ chip_type = "None"
    /\ pc = "det_reset"
    /\ call = Call("__init__", 0, 0)
    /\ result = Pending
    /\ wlog = <<>>
    /\ loc = NoLoc
    /\ src_port = 0
    /\ link = 1
    /\ snsr = [k \in AllSocks |-> SNSR_SOCK_CLOSED]
    /\ snir = [k \in AllSocks |-> 0]
    /\ rx_rsr = [k \in AllSocks |-> 0]
    /\ rx_rd = [k \in AllSocks |-> 0]
    /\ tx_wr = [k \in AllSocks |-> 0]
    /\ live = {}
    /\ alloc_port = [k \in AllSocks |-> 0]
    /\ before_read = Call("none", 0, 0)
    /\ iosock = 0

\* assert self.sw_reset() == 0, "Chip not reset properly!"
detect_sw_reset ==
    /\ pc = "det_reset"
    /\ wlog' = Append(wlog, WCommon(REG_MR, 128))
    /\ mr' = MrAfterWrite(chipid, 128)
    /\ IF SwReset(chipid) = 0
       THEN pc' = "det_mr08" /\ UNCHANGED result
       ELSE pc' = "idle" /\ result' = Raise("AssertionError:reset")
    /\ UNCHANGED <<runtime, iosock, chip_type, chipid, src_port, link, snsr, snir,
                   rx_rsr, rx_rd, tx_wr, call, loc, live, alloc_port, before_read>>

\* self._write_mr(pattern); assert self._read_mr()[0] == pattern
detect_mr_roundtrip ==
    /\ pc \in {"det_mr08", "det_mr10", "det_mr00"}
    /\ LET p == MrPattern(pc)
       IN  /\ wlog' = Append(wlog, WCommon(REG_MR, p.pat))
           /\ mr' = MrAfterWrite(chipid, p.pat)
           /\ IF MrAfterWrite(chipid, p.pat) = p.pat
              THEN pc' = p.next /\ UNCHANGED result
              ELSE pc' = "idle" /\ result' = Raise("AssertionError:mr")
    /\ UNCHANGED <<runtime, iosock, chip_type, chipid, src_port, link, snsr, snir,
                   rx_rsr, rx_rd, tx_wr, call, loc, live, alloc_port, before_read>>

\* the version check of detect_w5500: return -1, or record the chip and return 1
detect_version ==
    /\ pc = "det_version"
    /\ IF VersionAccepted(chipid.version)
       THEN /\ chip_type' = "w5500"
            /\ loc' = [loc EXCEPT !.ret = 1]
       ELSE /\ loc' = [loc EXCEPT !.ret = -1]
            /\ UNCHANGED chip_type
    /\ pc' = "init_rest"
    /\ UNCHANGED <<runtime, iosock, mr, chipid, src_port, link, snsr, snir,
                   rx_rsr, rx_rd, tx_wr, call, result, wlog, live, alloc_port, before_read>>

\* self.mac_address = address: _write_n(REG_SHAR, 0x04, address), one transaction
MacWrite(address) == [addr |-> REG_SHAR, cb |-> 4, data |-> address]

\* _w5100_init after detect_w5500 returned, and the rest of __init__:
\* assert self._w5100_init() == 1, "Unsuccessfully initialized Wiznet module."
\* self.mac_address = mac
init_rest ==
    /\ pc = "init_rest"
    /\ IF loc.ret = 1
       THEN /\ wlog' = wlog \o InitBufferWrites \o <<MacWrite(DEFAULT_MAC)>>
            /\ result' = Return("None")
       ELSE /\ result' = Raise("AssertionError:init")
            /\ UNCHANGED wlog
    /\ pc' = "idle"
    /\ UNCHANGED <<runtime, iosock, chip_type, mr, chipid, src_port, link, snsr, snir,
                   rx_rsr, rx_rd, tx_wr, call, loc, live, alloc_port, before_read>>

NextDetect ==
    \/ detect_sw_reset
    \/ detect_mr_roundtrip
    \/ detect_version
    \/ init_rest

SpecDetect == InitDetect /\ [][NextDetect]_vars

---------------------------------------------------------------------------
(* Claims about the slot life cycle.                                       *)

NoFreeSlot == \A k \in AllSocks : ~FreeStatus(snsr[k])

InConnectLoop == pc \in {"connect_poll1", "connect_poll2"}

\* C1: get_socket never returns the index of a live handle, one that an earlier
\* get_socket returned and that no socket_close has closed since.
C01_NoLiveSlotReturnedTwice ==
    [][get_socket => result'.val \notin live]_vars

\* C2: when no slot has a polled status of CLOSED, FIN_WAIT or CLOSE_WAIT,
\* get_socket does not hand out a slot: its result is no valid slot index.
C02_NoFreeSlotIsAllocationFailed ==
    [][(get_socket /\ NoFreeSlot)
        => ~(result'.kind = "return" /\ result'.val \in AllSocks)]_vars

\* C5: after every get_socket the source-port counter is a 16-bit port other
\* than 0, and an allocation made at 65535 leaves it at 1024.
C05_SrcPortWrapsTo1024 ==
    [][get_socket => /\ src_port' \in 1..65535
                     /\ (src_port = 65535 => src_port' = 1024)]_vars

\* C6: a socket_connect writes the CONNECT command only in TCP mode and only to
\* the slot it was called for, a TCP connect that got past the open has written
\* it, and a TCP connect returns success only with ESTABLISHED as its last poll.
C06_ConnectCommandToOwnSlot ==
    call.op = "socket_connect" =>
        /\ \A i \in 1..Len(wlog) :
              IsCmd(wlog[i], CMD_SOCK_CONNECT)
                  => call.arg = SNMR_TCP /\ SlotOf(wlog[i]) = call.sock
        /\ (call.arg = SNMR_TCP /\ (InConnectLoop \/ result.kind = "return"))
              => \E i \in 1..Len(wlog) :
                    IsCmd(wlog[i], CMD_SOCK_CONNECT) /\ SlotOf(wlog[i]) = call.sock
        /\ (call.arg = SNMR_TCP /\ result.kind = "return")
              => loc.polled = SNSR_SOCK_ESTABLISHED

\* C7: once a poll of the connect loop has read CLOSED, socket_connect stays in
\* the loop with CLOSED as its last poll or leaves it raising the connection
\* failure; it never returns success.
C07_ClosedWhileConnectingIsRefused ==
    [][(InConnectLoop /\ (loc.polled = SNSR_SOCK_CLOSED \/ loc'.polled = SNSR_SOCK_CLOSED))
        => \/ InConnectLoop' /\ loc'.polled = SNSR_SOCK_CLOSED
           \/ pc' = "idle" /\ result' = Raise("RuntimeError:connect")]_vars

\* a connect that polled SYNSENT, then CLOSED, and raised
C07_Witness ==
    /\ call.op = "socket_connect"
    /\ pc = "idle"
    /\ result.kind = "raise"
    /\ result.val = "RuntimeError:connect"
    /\ loc.polled = SNSR_SOCK_CLOSED

\* C10: whatever the slots' statuses, the index get_socket returns is below
\* max_sockets (8 on the W5500).
C10_ReturnedIndexBelowMaxSockets ==
    (call.op = "get_socket" /\ result.kind = "return")
        => result.val \in 0..(max_sockets - 1)

\* get_socket has returned while every slot is busy
C10_Witness ==
    /\ call.op = "get_socket"
    /\ result.kind = "return"
    /\ loc.polled \notin {-1, SNSR_SOCK_CLOSED, SNSR_SOCK_FIN_WAIT, SNSR_SOCK_CLOSE_WAIT}

---------------------------------------------------------------------------
(* Claims about the buffer transfers and the link check.                   *)

\* C3: a socket_write that has returned on a socket still ESTABLISHED (its send
\* completed) returned min(len(buffer), 2048).
C03_WriteReturnsClampedLength ==
    (/\ call.op = "socket_write"
     /\ pc = "idle"
     /\ result.kind = "return"
     /\ snsr[call.sock] = SNSR_SOCK_ESTABLISHED)
        => result.val = IF Len(call.arg) > 2048 THEN 2048 ELSE Len(call.arg)

\* C4: a socket_read that found zero bytes available returns, and does not raise:
\* count 0 and no data when the status it polled is CLOSE_WAIT, LISTEN or CLOSED,
\* count -1 for any other status.
C04_ZeroAvailableIsEofOrWouldBlock ==
    (/\ call.op = "socket_read"
     /\ pc = "idle"
     /\ loc.val_1 = <<0, 0>>)
        => /\ result.kind = "return"
           /\ result.val[1] =
                 IF loc.polled \in
                        {SNSR_SOCK_CLOSE_WAIT, SNSR_SOCK_LISTEN, SNSR_SOCK_CLOSED}
                 THEN 0 ELSE -1

IsLinkCheckedCall ==
    \E n \in IoSocks :
        \/ \E mode \in IoModes : socket_open(n, mode)
        \/ \E mode \in IoModes : socket_connect(n, mode)
        \/ socket_close(n)
        \/ \E buf \in Bufs : socket_write(n, buf)
        \/ \E length \in ReadLens : socket_read(n, length)

\* C8: a socket_open, socket_connect, socket_close, socket_read or socket_write
\* called while the link is down raises the link assertion, has made no bus
\* write and has left every chip register as it was.
C08_LinkDownFailsBeforeAnyWrite ==
    [][(link = 0 /\ IsLinkCheckedCall)
        => /\ result' = Raise("AssertionError:link")
           /\ wlog' = <<>>
           /\ pc' = "idle"
           /\ UNCHANGED <<snsr, snir, rx_rsr, rx_rd, tx_wr>>]_vars

\* a socket_open to 192.0.2.1:80 on slot 0 in TCP mode made with the link down
C08_Witness ==
    /\ call = Call("socket_open", 0, SNMR_TCP)
    /\ link = 0
    /\ result.kind = "raise"
    /\ result.val = "AssertionError:link"
    /\ wlog = <<>>

\* C9: a socket_write of B (at most 2048 bytes) followed at once by a
\* socket_read of len(B) bytes on the same slot returns exactly B, and with the
\* link up every socket_write leaves the write pointer, and every such
\* socket_read the read pointer, advanced by len(B) mod 65536.
C09_WriteThenReadRoundTrip ==
    /\ [](( /\ call.op = "socket_read"
            /\ pc = "idle"
            /\ before_read.op = "socket_write"
            /\ before_read.sock = call.sock
            /\ Len(before_read.arg) <= SOCK_SIZE
            /\ call.arg = Len(before_read.arg)
            /\ result.val # "AssertionError:link")
           => /\ result.kind = "return"
              /\ result.val = <<call.arg, before_read.arg>>)
    /\ [][\A n \in IoSocks, buf \in Bufs :
            (link = 1 /\ Len(buf) <= SOCK_SIZE /\ socket_write(n, buf))
                => tx_wr'[n] = (tx_wr[n] + Len(buf)) % 65536]_vars
    /\ [][( /\ rx_size_poll
            /\ pc' = "idle"
            /\ before_read.op = "socket_write"
            /\ before_read.sock = call.sock
            /\ call.arg = Len(before_read.arg))
           => rx_rd'[call.sock] = (rx_rd[call.sock] + call.arg) % 65536]_vars

---------------------------------------------------------------------------
(* Claims about socket_close, chip detection and the transfer protocol.    *)

\* the slot was closed by the last call and nothing has been called since
JustClosed(n) ==
    /\ call = Call("socket_close", n, 0)
    /\ result = Return("None")

\* C11: with the link up socket_close writes the CLOSE command and then 0xFF to
\* the interrupt register, leaving the slot CLOSED with no interrupt flag set; and
\* closing a slot that the previous call closed changes no chip register: the
\* state after closing twice is the state after closing once.
C11_CloseIsIdempotent ==
    [][\A n \in IoSocks :
         (link = 1 /\ socket_close(n))
            => /\ wlog' = <<W(n, REG_SNCR, CMD_SOCK_CLOSE), W(n, REG_SNIR, 255)>>
               /\ result' = Return("None")
               /\ snsr'[n] = SNSR_SOCK_CLOSED
               /\ snir'[n] = 0
               /\ JustClosed(n) =>
                     UNCHANGED <<snsr, snir, rx_rsr, rx_rd, tx_wr, src_port,
                                 result, wlog>>]_vars

\* slot 0 closed with the link up: CLOSE written, then the interrupt flags cleared
C11_Witness ==
    /\ JustClosed(0)
    /\ wlog = <<W(0, REG_SNCR, CMD_SOCK_CLOSE), W(0, REG_SNIR, 255)>>
    /\ snsr[0] = SNSR_SOCK_CLOSED
    /\ snir[0] = 0
    /\ rx_rsr[0] > 0

DetectFinished == call.op = "__init__" /\ pc = "idle"

\* C12: a chip variant is recorded only for a chip whose reset bit cleared,
\* whose mode register read back 0x08, 0x10 and 0x00, and whose version register
\* reads 0x04, and max_sockets is then 8; on such a chip __init__ succeeds; on any
\* other version byte detection fails, __init__ raises, and no variant is recorded.
C12_DetectAcceptsOnlyVersion4 ==
    /\ chip_type # "None"
          => /\ chip_type = "w5500"
             /\ MaxSocketsOf(chip_type) = 8
             /\ chipid.resets
             /\ {8, 16} \subseteq chipid.mrbits
             /\ chipid.version = 4
    /\ (DetectFinished /\ chipid.resets /\ {8, 16} \subseteq chipid.mrbits
            /\ chipid.version = 4)
          => chip_type = "w5500" /\ result = Return("None")
    /\ (DetectFinished /\ chipid.version # 4)
          => /\ chip_type = "None"
             /\ MaxSocketsOf(chip_type) = -1
             /\ result.kind = "raise"
             /\ (loc.ret = -1 \/ result.val \in {"AssertionError:reset", "AssertionError:mr"})

\* a chip that passed reset and the three round trips but reports version 0x05
C12_Witness ==
    /\ DetectFinished
    /\ chipid.version = 5
    /\ loc.ret = -1
    /\ result = Raise("AssertionError:init")
    /\ chip_type = "None"

\* C13: a socket_write that polls the status while waiting for TX free space and
\* finds it other than ESTABLISHED or CLOSE_WAIT is aborted: it returns 0 at once,
\* with no bus write made (no pointer write, no payload, no SEND) and the TX
\* write pointer unchanged.
C13_AbortedWriteLeavesChipUntouched ==
    [][\A n \in IoSocks, buf \in Bufs :
         (/\ socket_write(n, buf)
          /\ link = 1
          /\ WritePollsStatus(Len(buf))
          /\ snsr[n] \notin {SNSR_SOCK_ESTABLISHED, SNSR_SOCK_CLOSE_WAIT})
            => /\ wlog' = <<>>
               /\ tx_wr' = tx_wr
               /\ pc' = "idle"
               /\ result' = Return(0)]_vars

\* C14: with the link up every socket_write writes to the TX write-pointer
\* register the old pointer plus the transferred length (the buffer length
\* truncated to 2048) reduced mod 65536, as two bytes in 0..255, and the chip's
\* pointer is then that value.
C14_TxPointerAdvancesMod65536 ==
    [][\A n \in IoSocks, buf \in Bufs :
         (socket_write(n, buf) /\ link = 1)
            => LET v == (tx_wr[n] + Clamp(Len(buf))) % 65536
               IN  /\ Len(wlog') >= 2
                   /\ wlog'[1] = W(n, REG_SNTX_WR, v \div 256)
                   /\ wlog'[2] = W(n, REG_SNTX_WR + 1, v % 256)
                   /\ tx_wr'[n] = v]_vars

\* C15: a turn of the wait for SEND_OK that finds the flag not set and the
\* socket's status CLOSED ends the wait: socket_write issues CLOSE to the socket
\* and returns 0.
C15_ClosedWhileSendingReturnsZero ==
    [][(/\ send_poll
        /\ link = 1
        /\ ~SendOkSet(snir[call.sock])
        /\ snsr[call.sock] = SNSR_SOCK_CLOSED)
          => /\ pc' = "idle"
             /\ result' = Return(0)
             /\ \E i \in 1..Len(wlog') : IsCmd(wlog'[i], CMD_SOCK_CLOSE)]_vars

\* C16: _get_rx_rcv_size, as called by socket_read, is still in its loop only
\* while the latest two reads of Sn_RX_RSR differ, and has returned only after
\* two consecutive reads agreed: a register that changed during the call and
\* then read the same twice ends the call.
C16_RxSizeDoubleReadStabilises ==
    (call.op = "socket_read" /\ loc.val # <<>>)
        => /\ pc = "rx_size" => loc.val # loc.prev
           /\ pc = "idle" => loc.val = loc.prev

\* C17: a socket_read that finds more bytes received than the length asked for
\* returns exactly that many bytes, the next ones of the received stream, moves
\* the read pointer on by that length mod 65536 and leaves the rest buffered.
C17_ReadClampsToRequestedLength ==
    [][(/\ rx_size_poll
        /\ pc' = "idle"
        /\ call.arg > 0
        /\ FromBytesB(RegBytes(rx_rsr[call.sock])) > call.arg)
          => /\ result' = Return(<<call.arg, RxRead(call.sock, rx_rd[call.sock], call.arg)>>)
             /\ rx_rd'[call.sock] = (rx_rd[call.sock] + call.arg) % 65536
             /\ rx_rsr'[call.sock] = rx_rsr[call.sock] - call.arg]_vars

\* a write to socket register reg (two bytes, reg and reg + 1) of slot n
IsPtrWrite(hi, lo, n, reg) ==
    /\ hi.cb = WriteSocketCb(n) /\ hi.addr = WriteSocketAddr(n, reg)
    /\ lo.cb = WriteSocketCb(n) /\ lo.addr = WriteSocketAddr(n, reg + 1)

\* in the log every command cmd is preceded by a write of pointer register reg
CmdAfterPointer(log, n, cmd, reg) ==
    \A i \in 1..Len(log) :
        IsCmd(log[i], cmd)
            => \E j \in 1..(i - 1) : j + 1 < i /\ IsPtrWrite(log[j], log[j + 1], n, reg)

CmdIssued(log, cmd) == \E i \in 1..Len(log) : IsCmd(log[i], cmd)

\* C18: socket_read writes the RX read pointer before it issues RECV and returns
\* data only with RECV issued; socket_write writes the TX write pointer before
\* it issues SEND and returns only with SEND issued.
C18_ChipNotifiedAfterPointerUpdate ==
    /\ call.op = "socket_read"
          => /\ CmdAfterPointer(wlog, call.sock, CMD_SOCK_RECV, REG_SNRX_RD)
             /\ (result.kind = "return" /\ result.val[1] > 0)
                   => CmdIssued(wlog, CMD_SOCK_RECV)
    /\ call.op = "socket_write"
          => /\ CmdAfterPointer(wlog, call.sock, CMD_SOCK_SEND, REG_SNTX_WR)
             /\ result.kind = "return" => CmdIssued(wlog, CMD_SOCK_SEND)

\* a socket_read has returned one byte, its pointer write and RECV made
C18_Witness ==
    /\ call.op = "socket_read"
    /\ result.kind = "return"
    /\ result.val[1] = 1
    /\ Len(wlog) = 3
    /\ IsCmd(wlog[3], CMD_SOCK_RECV)

\* C19: the buffer access of socket_write and of socket_read starts at the
\* slot's bank base plus (pointer & 2047) and ends within the 2048 bytes of
\* the bank.
C19_BufferAccessMaskedIntoBank ==
    /\ [][\A n \in IoSocks, buf \in Bufs :
            (socket_write(n, buf) /\ loc'.addr # -1)
               => /\ loc'.addr = TxDstAddr(n, 0) + (tx_wr[n] % SOCK_SIZE)
                  /\ loc'.addr + Len(buf) <= TxDstAddr(n, 0) + SOCK_SIZE]_vars
    /\ [][(rx_size_poll /\ loc'.addr # -1)
            => /\ loc'.addr = RxSrcAddr(call.sock, 0) + (rx_rd[call.sock] % SOCK_SIZE)
               /\ loc'.addr + loc'.ret <= RxSrcAddr(call.sock, 0) + SOCK_SIZE]_vars

\* the offsets of the socket registers, 0x0000 to 0x002F
SockRegs == 0..47

\* C20: every write _write_socket makes goes to a location _read_socket reads:
\* the address of some socket register offset as _read_socket resolves it, in
\* the register block of the same slot.
C20_WriteAndReadResolveSameLocation ==
    \A i \in 1..Len(wlog) :
        (call.op # "__init__" /\ wlog[i].cb % 32 = WriteSocketCb(0))
            => \E r \in SockRegs :
                  /\ wlog[i].addr = ReadSocketAddr(SlotOf(wlog[i]), r)
                  /\ wlog[i].cb \div 8 = ReadSocketCb(SlotOf(wlog[i])) \div 8

---------------------------------------------------------------------------
\* C21: whenever socket_open writes a slot's source-port register, for a slot that
\* a get_socket call returned and that has not been closed since, the two bytes
\* written are the port that get_socket call assigned, whatever allocations
\* happened in between.
C21_OpenWritesAllocatedPort ==
    [][\A n \in Socks :
          (/\ open_write
           /\ call.op = "socket_open"
           /\ call.sock = n
           /\ alloc_port[n] # 0
           /\ Len(wlog') >= 4)
              => /\ wlog'[3] = W(n, REG_SNPORT, alloc_port[n] \div 256)
                 /\ wlog'[4] = W(n, REG_SNPORT + 1, alloc_port[n] % 256)]_vars

---------------------------------------------------------------------------
\* C22: socket_open with the link up, on a slot whose status is not CLOSED, returns 1
\* and writes nothing; on a slot whose status it read as CLOSED it writes, in this
\* order, the mode, 0xFF to the interrupt register, the two source-port bytes, the
\* four destination-address bytes, the two destination-port bytes and the OPEN
\* command, and it returns 0 only if the slot's status is then INIT (0x13) or UDP
\* (0x22).
C22_OpenSequenceAndAlreadyOpen ==
    [][\A n \in Socks, mode \in ConnModes :
          /\ (socket_open(n, mode) /\ link = 1 /\ snsr[n] # SNSR_SOCK_CLOSED)
                => /\ result' = Return(1)
                   /\ wlog' = <<>>
                   /\ pc' = "idle"
                   /\ snsr' = snsr
          /\ (socket_open(n, mode) /\ link = 1 /\ snsr[n] = SNSR_SOCK_CLOSED)
                => pc' = "open_sleep" /\ wlog' = <<>>
          /\ (open_write /\ call = Call("socket_open", n, mode))
                => /\ Len(wlog') = 11
                   /\ wlog'[1] = W(n, REG_SNMR, mode)
                   /\ wlog'[2] = W(n, REG_SNIR, 255)
                   /\ \E hi \in 0..255 : wlog'[3] = W(n, REG_SNPORT, hi)
                   /\ \E lo \in 0..255 : wlog'[4] = W(n, REG_SNPORT + 1, lo)
                   /\ \A i \in 1..4 : wlog'[4 + i] = W(n, REG_SNDIPR + i - 1, DestAddr[i])
                   /\ wlog'[9] = W(n, REG_SNDPORT, DestPort \div 256)
                   /\ wlog'[10] = W(n, REG_SNDPORT + 1, DestPort % 256)
                   /\ wlog'[11] = W(n, REG_SNCR, CMD_SOCK_OPEN)
                   /\ result' = Return(0)
                          => snsr'[n] \in {SNSR_SOCK_INIT, SNSR_SOCK_UDP}]_vars

---------------------------------------------------------------------------
\* C23: socket_read and socket_write (with the link up) and socket_available,
\* called with an index from max_sockets up, fail and put nothing on the bus for
\* that index.
C23_InvalidIndexRejectedWithoutAccess ==
    [][\A n \in BadSocks :
          (\/ socket_available(n)
           \/ link = 1 /\ \E buf \in BadBufs : socket_write(n, buf)
           \/ link = 1 /\ \E length \in BadLens : socket_read(n, length))
              => result'.kind = "raise" /\ wlog' = <<>>]_vars

====
